---- MODULE Spec2Model ----
(***************************************************************************)
(* State-machine model of spark/runners/iso_build.py: the IsoBuilder job   *)
(* runner (set_job, run) driving the schroot sandbox provider.             *)
(*                                                                         *)
(* Strings supplied by the caller (suite, architecture, liveBuildGit,      *)
(* flavor) are sequences of one-character strings, so that shlex.quote     *)
(* can be computed character by character; Str turns them into the text    *)
(* that str.format inserts.                                                *)
(***************************************************************************)
EXTENDS Integers, Sequences, FiniteSets, TLC

\* ---------------------------------------------------------------- bounds
MaxSetJobs == 2
MaxRuns == 2

\* ------------------------------------------------------- python values
\* None as the result of dict.get on an absent key
NoneSeq == <<"<None>">>
\* an instance attribute that was never assigned (reading it raises AttributeError)
Unset == "<unset>"

EmptyMap == [k \in {} |-> NoneSeq]
PyNone == [tag |-> "None", d |-> EmptyMap]
PyUnset == [tag |-> "unset", d |-> EmptyMap]
PyDict(m) == [tag |-> "dict", d |-> m]

\* dict.get(key): the value, or None when the key is absent
DictGet(m, k) == IF k \in DOMAIN m THEN m[k] ELSE NoneSeq

\* truth value of an optional string: None and '' are false
TruthyStr(s) == s # NoneSeq /\ s # <<>>
\* truth value of an optional dict: None and {} are false
TruthyData(v) == v.tag = "dict" /\ DOMAIN v.d # {}

RECURSIVE Str(_)
Str(s) == IF s = <<>> THEN "" ELSE Head(s) \o Str(Tail(s))

\* ------------------------------------------------------------- inputs
SuiteStable == <<"s", "t", "a", "b", "l", "e">>
SuiteSid == <<"s", "i", "d">>
ArchAmd64 == <<"a", "m", "d", "6", "4">>
ArchI386 == <<"i", "3", "8", "6">>
GitPlain == <<"g", "i", "t", ":", "/", "/", "h", "/", "l", "b">>
GitSpace == <<"/", "l", " ", "b">>
FlavorMinimal == <<"m", "i", "n", "i", "m", "a", "l">>
FlavorQuote == <<"a", "'", "b">>

Suites == {<<>>, SuiteStable, SuiteSid}
Archs == {NoneSeq, <<>>, ArchAmd64, ArchI386}
GitUrls == {GitPlain, GitSpace}
Flavors == {<<>>, FlavorMinimal, FlavorQuote}
Workspaces == {"/ws1", "/ws2"}

\* every dict over the keys the runner reads (an absent key is a key outside the domain)
DataMaps ==
    UNION { [ks -> Suites \cup GitUrls \cup Flavors] : ks \in SUBSET {"suite", "liveBuildGit", "flavor"} }

WellTyped(m) ==
    /\ ("suite" \in DOMAIN m => m["suite"] \in Suites)
    /\ ("liveBuildGit" \in DOMAIN m => m["liveBuildGit"] \in GitUrls)
    /\ ("flavor" \in DOMAIN m => m["flavor"] \in Flavors)

DataValues == {PyNone} \cup { PyDict(m) : m \in { x \in DataMaps : WellTyped(x) } }

\* job.get('data') and job.get('architecture') are all the runner reads of a job
Jobs == [data : DataValues, architecture : Archs]

JobIds == {"job-1"}
WorkDirs == {"/srv/ws"}
ResultsDirs == {"/srv/res"}
ScriptPaths == {"/tmp/job-1.sh"}
ExitStatuses == {0, 1, 2}
UpgradeResults == {0, 1}

\* -------------------------------------------------------------- state
VARIABLES
    workspace,      \* self._workspace
    job_data,       \* self._job_data
    chroot_name,    \* self._chroot_name
    cfgCount,       \* number of set_job calls made
    cfgRet,         \* result of the most recent set_job call: "none", "true", "false"
    cfgJob,         \* job passed to the most recent set_job call
    cfgWs,          \* workspace passed to the most recent set_job call
    cfgEverOk,      \* some set_job call has returned True
    pc,             \* position of run: "idle" when no run is in progress
    runs,           \* number of run calls made
    cfgAtRun,       \* cfgRet at the moment the most recent run was called
    prevScript,     \* directories and command list of the latest earlier run that built a script
    job_id,         \* jlog.job_id of the most recent run
    wsdir,          \* work directory yielded by spark_schroot
    results_dir,    \* results directory yielded by spark_schroot
    commands,       \* the command list built by run
    shfname,        \* script path yielded by make_commandfile
    rets,           \* results reported by the provider in this run, by step
    log,            \* provider calls and scope exits of the most recent run, in order
    outcome,        \* how the most recent run ended: "none", "returned", "raised"
    retval,         \* value returned by the most recent run (when outcome = "returned")
    faultAt         \* the step that raised in the most recent run, or "none"

self == <<workspace, job_data, chroot_name>>
cfgHist == <<cfgCount, cfgRet, cfgJob, cfgWs, cfgEverOk>>
runHist == <<cfgAtRun, prevScript>>
runLocals == <<job_id, wsdir, results_dir, commands, shfname, rets>>
runObs == <<pc, log, outcome, retval, faultAt>>
vars == <<workspace, job_data, chroot_name, cfgCount, cfgRet, cfgJob, cfgWs, cfgEverOk,
          pc, runs, cfgAtRun, prevScript, job_id, wsdir, results_dir, commands, shfname,
          rets, log, outcome, retval, faultAt>>

NoJob == [data |-> PyNone, architecture |-> NoneSeq]
NoRets == [k \in {} |-> 0]
NoScript == [w |-> "", r |-> "", cmds |-> <<>>]

\* variant: the constructor gives the attributes default values
Init_Defaults ==
    /\ workspace = ""
    /\ job_data = PyNone
    /\ chroot_name = ""
    /\ cfgCount = 0
    /\ cfgRet = "none"
    /\ cfgJob = NoJob
    /\ cfgWs = Unset
    /\ cfgEverOk = FALSE
    /\ pc = "idle"
    /\ runs = 0
    /\ cfgAtRun = "none"
    /\ prevScript = NoScript
    /\ job_id = ""
    /\ wsdir = ""
    /\ results_dir = ""
    /\ commands = <<>>
    /\ shfname = ""
    /\ rets = NoRets
    /\ log = <<>>
    /\ outcome = "none"
    /\ retval = FALSE
    /\ faultAt = "none"

\* IsoBuilder.__init__ assigns nothing
Init ==
    /\ workspace = Unset
    /\ job_data = PyUnset
    /\ chroot_name = Unset
    /\ cfgCount = 0
    /\ cfgRet = "none"
    /\ cfgJob = NoJob
    /\ cfgWs = Unset
    /\ cfgEverOk = FALSE
    /\ pc = "idle"
    /\ runs = 0
    /\ cfgAtRun = "none"
    /\ prevScript = NoScript
    /\ job_id = ""
    /\ wsdir = ""
    /\ results_dir = ""
    /\ commands = <<>>
    /\ shfname = ""
    /\ rets = NoRets
    /\ log = <<>>
    /\ outcome = "none"
    /\ retval = FALSE
    /\ faultAt = "none"

\* ------------------------------------------------------------ set_job
\* variant: the two fields in the opposite order
FormatChrootName_Swapped(suite_name, arch) == Str(arch) \o "-" \o Str(suite_name)

\* '{0}-{1}'.format(suite_name, arch)
FormatChrootName(suite_name, arch) == Str(suite_name) \o "-" \o Str(arch)

\* set_job as a function of the instance and its arguments: the attributes
\* after the call and the value returned
set_job(ws_old, jd_old, cn_old, job, ws) ==
    LET jd == job.data
        suite_name == IF TruthyData(jd) THEN DictGet(jd.d, "suite") ELSE NoneSeq
        arch == job.architecture
        ok == TruthyData(jd) /\ TruthyStr(suite_name) /\ TruthyStr(arch)
    IN  [workspace |-> ws,
         job_data |-> jd,
         chroot_name |-> IF ok THEN FormatChrootName(suite_name, arch) ELSE cn_old,
         ret |-> ok]

\* set_job is called; the caller configures before it runs (spec 3, lifecycle),
\* and run leaves the attributes alone, so calls after a run add nothing
SetJob(job, ws) ==
    /\ pc = "idle"
    /\ runs = 0
    /\ cfgCount < MaxSetJobs
    /\ LET r == set_job(workspace, job_data, chroot_name, job, ws)
       IN  /\ workspace' = r.workspace
           /\ job_data' = r.job_data
           /\ chroot_name' = r.chroot_name
           /\ cfgRet' = IF r.ret THEN "true" ELSE "false"
           /\ cfgEverOk' = (cfgEverOk \/ r.ret)
    /\ cfgCount' = cfgCount + 1
    /\ cfgJob' = job
    /\ cfgWs' = ws
    /\ UNCHANGED <<runs, runHist, runLocals, runObs>>

\* ---------------------------------------------------------------- run
Call(op, arg, user) == [op |-> op, arg |-> arg, user |-> user]

AptInstallGit == <<"apt-get", "install", "-y", "git", "ca-certificates">>
AptInstallLiveBuild == <<"apt-get", "install", "-y", "live-build">>
ShExec(path) == <<"sh", "-e", path>>

\* leaving the "with spark_schroot(...)" block releases the sandbox
ExitSchroot(l) == Append(l, Call("release", <<>>, ""))
\* leaving the "with make_commandfile(...)" block removes the script
ExitCommandfile(l) == Append(l, Call("cleanup", <<>>, ""))

\* run is over: it returned rv (out = "returned") or raised at step f (out = "raised")
Leave(l, out, rv, f) ==
    /\ log' = l
    /\ pc' = "idle"
    /\ outcome' = out
    /\ retval' = rv
    /\ faultAt' = f

\* run goes on to its next step
Proceed(l, next) ==
    /\ log' = l
    /\ pc' = next
    /\ UNCHANGED <<outcome, retval, faultAt>>

\* python truth value of an exit status in "if ret:"
Failed(ret) == ret # 0

\* variant: the upgrade step is left out
Enter_SkipUpgrade ==
    /\ pc = "idle"
    /\ runs < MaxRuns
    /\ runs' = runs + 1
    /\ cfgAtRun' = cfgRet
    /\ prevScript' = IF commands # <<>> /\ faultAt # "build"
                     THEN [w |-> wsdir, r |-> results_dir, cmds |-> commands]
                     ELSE prevScript
    /\ commands' = <<>>
    /\ shfname' = ""
    /\ rets' = NoRets
    /\ UNCHANGED <<self, cfgHist>>
    /\ IF chroot_name = Unset
       THEN /\ Leave(<<>>, "raised", FALSE, "attribute")
            /\ job_id' = ""
            /\ wsdir' = ""
            /\ results_dir' = ""
       ELSE \E jid \in JobIds :
                LET l == <<Call("acquire", <<chroot_name, jid>>, "")>> IN
                /\ job_id' = jid
                /\ \/ /\ Leave(l, "raised", FALSE, "acquire")
                      /\ wsdir' = ""
                      /\ results_dir' = ""
                   \/ \E w \in WorkDirs, r \in ResultsDirs :
                          /\ wsdir' = w
                          /\ results_dir' = r
                          /\ log' = l
                          /\ pc' = "install_git"
                          /\ outcome' = "none"
                          /\ retval' = FALSE
                          /\ faultAt' = "none"

\* run is called; spark_schroot(self._chroot_name, jlog.job_id) is entered
Enter ==
    /\ pc = "idle"
    /\ runs < MaxRuns
    /\ runs' = runs + 1
    /\ cfgAtRun' = cfgRet
    /\ prevScript' = IF commands # <<>> /\ faultAt # "build"
                     THEN [w |-> wsdir, r |-> results_dir, cmds |-> commands]
                     ELSE prevScript
    /\ commands' = <<>>
    /\ shfname' = ""
    /\ rets' = NoRets
    /\ UNCHANGED <<self, cfgHist>>
    /\ IF chroot_name = Unset
       THEN \* AttributeError on self._chroot_name, before any provider call
            /\ Leave(<<>>, "raised", FALSE, "attribute")
            /\ job_id' = ""
            /\ wsdir' = ""
            /\ results_dir' = ""
       ELSE \E jid \in JobIds :
                LET l == <<Call("acquire", <<chroot_name, jid>>, "")>> IN
                /\ job_id' = jid
                /\ \/ \* the provider cannot set the sandbox up: nothing to release
                      /\ Leave(l, "raised", FALSE, "acquire")
                      /\ wsdir' = ""
                      /\ results_dir' = ""
                   \/ \E w \in WorkDirs, r \in ResultsDirs :
                          /\ wsdir' = w
                          /\ results_dir' = r
                          /\ log' = l
                          /\ pc' = "upgrade"
                          /\ outcome' = "none"
                          /\ retval' = FALSE
                          /\ faultAt' = "none"

\* variant: a nonzero upgrade result is treated like a failed install
Upgrade_Checked ==
    /\ pc = "upgrade"
    /\ UNCHANGED <<self, cfgHist, runs, runHist, job_id, wsdir, results_dir, commands, shfname>>
    /\ LET l == Append(log, Call("upgrade", <<>>, "")) IN
       \/ /\ Leave(ExitSchroot(l), "raised", FALSE, "upgrade")
          /\ UNCHANGED rets
       \/ \E u \in UpgradeResults :
              /\ rets' = ("upgrade" :> u) @@ rets
              /\ IF Failed(u)
                 THEN Leave(ExitSchroot(l), "returned", FALSE, "none")
                 ELSE Proceed(l, "install_git")

\* chroot_upgrade(chroot, jlog): the result is not looked at
Upgrade ==
    /\ pc = "upgrade"
    /\ UNCHANGED <<self, cfgHist, runs, runHist, job_id, wsdir, results_dir, commands, shfname>>
    /\ LET l == Append(log, Call("upgrade", <<>>, "")) IN
       \/ /\ Leave(ExitSchroot(l), "raised", FALSE, "upgrade")
          /\ UNCHANGED rets
       \/ \E u \in UpgradeResults :
              /\ rets' = ("upgrade" :> u) @@ rets
              /\ Proceed(l, "install_git")

\* variant: the early return leaves without releasing the sandbox
InstallGit_Leak ==
    /\ pc = "install_git"
    /\ UNCHANGED <<self, cfgHist, runs, runHist, job_id, wsdir, results_dir, commands, shfname>>
    /\ LET l == Append(log, Call("runLogged", AptInstallGit, "root")) IN
       \/ /\ Leave(ExitSchroot(l), "raised", FALSE, "install_git")
          /\ UNCHANGED rets
       \/ \E ret \in ExitStatuses :
              /\ rets' = ("install_git" :> ret) @@ rets
              /\ IF Failed(ret)
                 THEN Leave(l, "returned", FALSE, "none")
                 ELSE Proceed(l, "install_lb")

\* variant: the status of the install is not tested
InstallGit_Unchecked ==
    /\ pc = "install_git"
    /\ UNCHANGED <<self, cfgHist, runs, runHist, job_id, wsdir, results_dir, commands, shfname>>
    /\ LET l == Append(log, Call("runLogged", AptInstallGit, "root")) IN
       \/ /\ Leave(ExitSchroot(l), "raised", FALSE, "install_git")
          /\ UNCHANGED rets
       \/ \E ret \in ExitStatuses :
              /\ rets' = ("install_git" :> ret) @@ rets
              /\ Proceed(l, "install_lb")

\* ret = chroot_run_logged(... git ca-certificates, user='root'); if ret: return False
InstallGit ==
    /\ pc = "install_git"
    /\ UNCHANGED <<self, cfgHist, runs, runHist, job_id, wsdir, results_dir, commands, shfname>>
    /\ LET l == Append(log, Call("runLogged", AptInstallGit, "root")) IN
       \/ /\ Leave(ExitSchroot(l), "raised", FALSE, "install_git")
          /\ UNCHANGED rets
       \/ \E ret \in ExitStatuses :
              /\ rets' = ("install_git" :> ret) @@ rets
              /\ IF Failed(ret)
                 THEN Leave(ExitSchroot(l), "returned", FALSE, "none")
                 ELSE Proceed(l, "install_lb")

\* variant: the status of the install is not tested
InstallLiveBuild_Unchecked ==
    /\ pc = "install_lb"
    /\ UNCHANGED <<self, cfgHist, runs, runHist, job_id, wsdir, results_dir, commands, shfname>>
    /\ LET l == Append(log, Call("runLogged", AptInstallLiveBuild, "root")) IN
       \/ /\ Leave(ExitSchroot(l), "raised", FALSE, "install_lb")
          /\ UNCHANGED rets
       \/ \E ret \in ExitStatuses :
              /\ rets' = ("install_lb" :> ret) @@ rets
              /\ Proceed(l, "build")

\* ret = chroot_run_logged(... live-build, user='root'); if ret: return False
InstallLiveBuild ==
    /\ pc = "install_lb"
    /\ UNCHANGED <<self, cfgHist, runs, runHist, job_id, wsdir, results_dir, commands, shfname>>
    /\ LET l == Append(log, Call("runLogged", AptInstallLiveBuild, "root")) IN
       \/ /\ Leave(ExitSchroot(l), "raised", FALSE, "install_lb")
          /\ UNCHANGED rets
       \/ \E ret \in ExitStatuses :
              /\ rets' = ("install_lb" :> ret) @@ rets
              /\ IF Failed(ret)
                 THEN Leave(ExitSchroot(l), "returned", FALSE, "none")
                 ELSE Proceed(l, "build")

\* ------------------------------------------------------- shlex.quote
SafeChars ==
    {"a", "b", "c", "d", "e", "f", "g", "h", "i", "j", "k", "l", "m",
     "n", "o", "p", "q", "r", "s", "t", "u", "v", "w", "x", "y", "z",
     "A", "B", "C", "D", "E", "F", "G", "H", "I", "J", "K", "L", "M",
     "N", "O", "P", "Q", "R", "S", "T", "U", "V", "W", "X", "Y", "Z",
     "0", "1", "2", "3", "4", "5", "6", "7", "8", "9",
     "_", "@", "%", "+", "=", ":", ",", ".", "/", "-"}

\* s.replace("'", "'\"'\"'")
RECURSIVE ReplaceQuotes(_)
ReplaceQuotes(s) ==
    IF s = <<>> THEN <<>>
    ELSE (IF Head(s) = "'" THEN <<"'", "\"", "'", "\"", "'">> ELSE <<Head(s)>>)
         \o ReplaceQuotes(Tail(s))

\* variant: None is formatted as text instead of being quoted as an empty string
ShlexQuote_NoneAsText(s) ==
    IF s = NoneSeq THEN <<"N", "o", "n", "e">>
    ELSE IF s = <<>> THEN <<"'", "'">>
    ELSE IF \A i \in 1..Len(s) : s[i] \in SafeChars THEN s
    ELSE <<"'">> \o ReplaceQuotes(s) \o <<"'">>

\* shlex.quote: '' for a false value (None, empty), the string itself when
\* every character is safe, else the string in single quotes
ShlexQuote(s) ==
    IF ~TruthyStr(s) THEN <<"'", "'">>
    ELSE IF \A i \in 1..Len(s) : s[i] \in SafeChars THEN s
    ELSE <<"'">> \o ReplaceQuotes(s) \o <<"'">>

\* ----------------------------------------------------- command script
\* variant: only an absent flavor is skipped ("is not None" instead of truth)
FlavorLines_NotNone(flavor) ==
    IF flavor # NoneSeq
    THEN << "export FLAVOR=\"" \o Str(ShlexQuote(flavor)) \o "\"" >>
    ELSE <<>>

\* the optional 'export FLAVOR=...' line
FlavorLines(flavor) ==
    IF TruthyStr(flavor)
    THEN << "export FLAVOR=\"" \o Str(ShlexQuote(flavor)) \o "\"" >>
    ELSE <<>>

\* variant: the artifacts are moved away before the checksums are computed
BuildCommands_MovesFirst(m, w, r) ==
    << "export DEBIAN_FRONTEND=noninteractive",
       "cd " \o w,
       "git clone --depth=2 " \o Str(ShlexQuote(DictGet(m, "liveBuildGit"))) \o " " \o w \o "/lb",
       "cd ./lb" >>
    \o FlavorLines(DictGet(m, "flavor"))
    \o << "lb config",
          "lb build",
          "mv *.iso " \o r \o "/",
          "mv -f *.zsync " \o r \o "/",
          "mv -f *.contents " \o r \o "/",
          "mv -f *.files " \o r \o "/",
          "mv -f *.packages " \o r \o "/",
          "b2sum *.iso *.contents *.zsync *.packages > checksums.b2sum",
          "sha256sum *.iso *.contents *.zsync *.packages > checksums.sha256sum",
          "mv -f *.b2sum " \o r \o "/",
          "mv -f *.sha256sum " \o r \o "/" >>

\* the command list of run for job data m (a dict), work directory w and results directory r
BuildCommands(m, w, r) ==
    << "export DEBIAN_FRONTEND=noninteractive",
       "cd " \o w,
       "git clone --depth=2 " \o Str(ShlexQuote(DictGet(m, "liveBuildGit"))) \o " " \o w \o "/lb",
       "cd ./lb" >>
    \o FlavorLines(DictGet(m, "flavor"))
    \o << "lb config",
          "lb build",
          "b2sum *.iso *.contents *.zsync *.packages > checksums.b2sum",
          "sha256sum *.iso *.contents *.zsync *.packages > checksums.sha256sum",
          "mv *.iso " \o r \o "/",
          "mv -f *.zsync " \o r \o "/",
          "mv -f *.contents " \o r \o "/",
          "mv -f *.files " \o r \o "/",
          "mv -f *.packages " \o r \o "/",
          "mv -f *.b2sum " \o r \o "/",
          "mv -f *.sha256sum " \o r \o "/" >>

\* variant: the command list is kept on the instance and not emptied per run
BuildScript_Accumulate ==
    /\ pc = "build"
    /\ UNCHANGED <<self, cfgHist, runs, runHist, job_id, wsdir, results_dir, shfname, rets>>
    /\ IF job_data.tag = "dict"
       THEN /\ commands' = prevScript.cmds \o BuildCommands(job_data.d, wsdir, results_dir)
            /\ Proceed(log, "materialize")
       ELSE /\ commands' = SubSeq(BuildCommands(EmptyMap, wsdir, results_dir), 1, 2)
            /\ Leave(ExitSchroot(log), "raised", FALSE, "build")

\* variant: a missing liveBuildGit raises while the clone line is formatted
BuildScript_StrictUrl ==
    /\ pc = "build"
    /\ UNCHANGED <<self, cfgHist, runs, runHist, job_id, wsdir, results_dir, shfname, rets>>
    /\ IF job_data.tag = "dict" /\ "liveBuildGit" \in DOMAIN job_data.d
       THEN /\ commands' = BuildCommands(job_data.d, wsdir, results_dir)
            /\ Proceed(log, "materialize")
       ELSE /\ commands' = SubSeq(BuildCommands(EmptyMap, wsdir, results_dir), 1, 2)
            /\ Leave(ExitSchroot(log), "raised", FALSE, "build")

\* construct build recipe: no provider call; self._job_data.get raises when
\* the attribute holds None
BuildScript ==
    /\ pc = "build"
    /\ UNCHANGED <<self, cfgHist, runs, runHist, job_id, wsdir, results_dir, shfname, rets>>
    /\ IF job_data.tag = "dict"
       THEN /\ commands' = BuildCommands(job_data.d, wsdir, results_dir)
            /\ Proceed(log, "materialize")
       ELSE \* the first two lines are appended before the clone line raises
            /\ commands' = SubSeq(BuildCommands(EmptyMap, wsdir, results_dir), 1, 2)
            /\ Leave(ExitSchroot(log), "raised", FALSE, "build")

\* variant: a fault of make_commandfile is caught and reported as a failed build
Materialize_Caught ==
    /\ pc = "materialize"
    /\ UNCHANGED <<self, cfgHist, runs, runHist, job_id, wsdir, results_dir, commands, rets>>
    /\ LET l == Append(log, Call("materialize", <<job_id>> \o commands, "")) IN
       \/ /\ Leave(ExitSchroot(l), "returned", FALSE, "materialize")
          /\ UNCHANGED shfname
       \/ \E f \in ScriptPaths :
              /\ shfname' = f
              /\ Proceed(l, "copy")

\* with make_commandfile(jlog.job_id, commands) as shfname
Materialize ==
    /\ pc = "materialize"
    /\ UNCHANGED <<self, cfgHist, runs, runHist, job_id, wsdir, results_dir, commands, rets>>
    /\ LET l == Append(log, Call("materialize", <<job_id>> \o commands, "")) IN
       \/ \* the script cannot be written: the block is never entered
          /\ Leave(ExitSchroot(l), "raised", FALSE, "materialize")
          /\ UNCHANGED shfname
       \/ \E f \in ScriptPaths :
              /\ shfname' = f
              /\ Proceed(l, "copy")

\* variant: a fault of the copy leaves the script behind
Copy_NoCleanup ==
    /\ pc = "copy"
    /\ UNCHANGED <<self, cfgHist, runs, runHist, runLocals>>
    /\ LET l == Append(log, Call("copy", <<shfname, shfname>>, "")) IN
       \/ Leave(ExitSchroot(l), "raised", FALSE, "copy")
       \/ Proceed(l, "exec")

\* chroot_copy(chroot, shfname, shfname)
Copy ==
    /\ pc = "copy"
    /\ UNCHANGED <<self, cfgHist, runs, runHist, runLocals>>
    /\ LET l == Append(log, Call("copy", <<shfname, shfname>>, "")) IN
       \/ Leave(ExitSchroot(ExitCommandfile(l)), "raised", FALSE, "copy")
       \/ Proceed(l, "exec")

\* variant: the sandbox is released before the script is removed
Execute_ReleaseFirst ==
    /\ pc = "exec"
    /\ UNCHANGED <<self, cfgHist, runs, runHist, job_id, wsdir, results_dir, commands, shfname>>
    /\ LET l == Append(log, Call("runLogged", ShExec(shfname), "root")) IN
       \/ /\ Leave(ExitCommandfile(ExitSchroot(l)), "raised", FALSE, "exec")
          /\ UNCHANGED rets
       \/ \E ret \in ExitStatuses :
              /\ rets' = ("exec" :> ret) @@ rets
              /\ Leave(ExitCommandfile(ExitSchroot(l)), "returned", ~Failed(ret), "none")

\* variant: the status of the script is not tested
Execute_Unchecked ==
    /\ pc = "exec"
    /\ UNCHANGED <<self, cfgHist, runs, runHist, job_id, wsdir, results_dir, commands, shfname>>
    /\ LET l == Append(log, Call("runLogged", ShExec(shfname), "root")) IN
       \/ /\ Leave(ExitSchroot(ExitCommandfile(l)), "raised", FALSE, "exec")
          /\ UNCHANGED rets
       \/ \E ret \in ExitStatuses :
              /\ rets' = ("exec" :> ret) @@ rets
              /\ Leave(ExitSchroot(ExitCommandfile(l)), "returned", TRUE, "none")

\* ret = chroot_run_logged(... sh -e shfname, user='root'); if ret: return False;
\* then the script block is left, "if ret" is tested again, the sandbox block
\* is left and run returns True
Execute ==
    /\ pc = "exec"
    /\ UNCHANGED <<self, cfgHist, runs, runHist, job_id, wsdir, results_dir, commands, shfname>>
    /\ LET l == Append(log, Call("runLogged", ShExec(shfname), "root")) IN
       \/ /\ Leave(ExitSchroot(ExitCommandfile(l)), "raised", FALSE, "exec")
          /\ UNCHANGED rets
       \/ \E ret \in ExitStatuses :
              /\ rets' = ("exec" :> ret) @@ rets
              /\ IF Failed(ret)
                 THEN Leave(ExitSchroot(ExitCommandfile(l)), "returned", FALSE, "none")
                 ELSE IF Failed(ret)
                      THEN Leave(ExitSchroot(ExitCommandfile(l)), "returned", FALSE, "none")
                      ELSE Leave(ExitSchroot(ExitCommandfile(l)), "returned", TRUE, "none")

Next ==
    \/ \E job \in Jobs, ws \in Workspaces : SetJob(job, ws)
    \/ Enter
    \/ Upgrade
    \/ InstallGit
    \/ InstallLiveBuild
    \/ BuildScript
    \/ Materialize
    \/ Copy
    \/ Execute

Spec == Init /\ [][Next]_vars

\* ------------------------------------------------- reading the run log
Ops(l) == [i \in 1..Len(l) |-> l[i].op]
Count(op) == Cardinality({i \in 1..Len(log) : log[i].op = op})
HasOp(op) == \E i \in 1..Len(log) : log[i].op = op
\* a run was called and is over
Exited == pc = "idle" /\ runs > 0
\* the most recent run entered the sandbox block
Acquired == Len(log) > 0 /\ log[1].op = "acquire" /\ faultAt # "acquire"
\* the steps at which the fault comes from a provider operation
ProviderFaults == {"acquire", "upgrade", "install_git", "install_lb", "materialize", "copy", "exec"}
Reported(step) == step \in DOMAIN rets
AllZero == \A k \in {"install_git", "install_lb", "exec"} : Reported(k) /\ rets[k] = 0

\* ------------------------------------------------------------- claims

\* C1: a run that acquired the sandbox has released it exactly once when it
\* is over, on every exit path, and not at all while it is still going
C1_ReleaseExactlyOnce ==
    Acquired => Count("release") = (IF pc = "idle" THEN 1 ELSE 0)

C1_Witness ==
    /\ Exited
    /\ faultAt = "copy"
    /\ Count("release") = 1

\* C2: when the git/ca-certificates install reports nonzero, run returns
\* False and the only thing that follows the install is the release
C2_GitInstallFailureStops ==
    (Reported("install_git") /\ rets["install_git"] # 0) =>
        /\ Exited
        /\ outcome = "returned"
        /\ retval = FALSE
        /\ Ops(log) = <<"acquire", "upgrade", "runLogged", "release">>
        /\ log[3].arg = AptInstallGit

C2_Witness ==
    /\ Exited
    /\ Reported("install_git")
    /\ rets["install_git"] = 2

\* C3: when the git install reports zero and the live-build install nonzero,
\* run returns False without materializing, copying or executing the script
C3_LiveBuildInstallFailureStops ==
    (Reported("install_lb") /\ rets["install_lb"] # 0) =>
        /\ rets["install_git"] = 0
        /\ Exited
        /\ outcome = "returned"
        /\ retval = FALSE
        /\ Ops(log) = <<"acquire", "upgrade", "runLogged", "runLogged", "release">>
        /\ log[4].arg = AptInstallLiveBuild
        /\ commands = <<>>

C3_Witness ==
    /\ Exited
    /\ Reported("install_lb")
    /\ rets["install_lb"] = 1

\* C4: a run in which no provider operation raised returns True exactly when
\* both installs and the script execution reported zero; a nonzero script
\* execution gives False
C4_TrueIffAllZero ==
    (Exited /\ faultAt \notin ProviderFaults) =>
        /\ (outcome = "returned" /\ retval) <=> AllZero
        /\ (Reported("exec") /\ rets["exec"] # 0) =>
               (outcome = "returned" /\ retval = FALSE /\ rets["install_git"] = 0 /\ rets["install_lb"] = 0)

C4_Witness ==
    /\ Exited
    /\ outcome = "returned"
    /\ retval = TRUE
    /\ AllZero

\* C5: whatever chroot_upgrade reports, the next step of run is the
\* git/ca-certificates install, and the value run returns is fixed by the
\* two installs and the script execution alone
C5_UpgradeResultIgnored ==
    /\ [][(pc = "upgrade" /\ faultAt' # "upgrade") =>
              (pc' = "install_git" /\ outcome' = "none" /\ Reported("upgrade")')]_vars
    /\ [](\A u \in UpgradeResults :
              (Exited /\ outcome = "returned" /\ Reported("upgrade") /\ rets["upgrade"] = u) =>
                  (retval <=> AllZero))

C5_Witness ==
    /\ Exited
    /\ Reported("upgrade")
    /\ rets["upgrade"] # 0
    /\ outcome = "returned"
    /\ retval = TRUE

\* C6: a set_job call that returns False leaves workspace, jobData and
\* chrootName as they were
C6_FailedSetJobNoSideEffects ==
    [][(cfgCount' = cfgCount + 1 /\ cfgRet' = "false") =>
           UNCHANGED <<workspace, job_data, chroot_name>>]_vars

\* the job is complete: non-empty data, non-empty suite in it, non-empty architecture
ValidJob(job) ==
    /\ job.data.tag = "dict"
    /\ "suite" \in DOMAIN job.data.d
    /\ Len(job.data.d["suite"]) > 0
    /\ job.architecture # NoneSeq
    /\ Len(job.architecture) > 0

\* C7: set_job on a complete job returns True, stores the workspace and the
\* data mapping, and sets chrootName to suite, '-', architecture
C7_ValidSetJob ==
    (cfgCount > 0 /\ ValidJob(cfgJob)) =>
        /\ cfgRet = "true"
        /\ workspace = cfgWs
        /\ job_data = cfgJob.data
        /\ chroot_name = Str(cfgJob.data.d["suite"] \o <<"-">> \o cfgJob.architecture)
        /\ (cfgJob.data.d["suite"] = SuiteStable /\ cfgJob.architecture = ArchAmd64) =>
               chroot_name = "stable-amd64"

C7_Witness ==
    /\ cfgCount = 2
    /\ cfgRet = "true"
    /\ cfgWs = "/ws2"
    /\ chroot_name = "stable-amd64"

\* C8: a run called when the most recent set_job returned False acquires no
\* sandbox and makes no provider call
C8_FailedSetJobBlocksRun ==
    (runs > 0 /\ cfgAtRun = "false") => log = <<>>

\* C9: a run on an instance whose configuration succeeded raises only when a
\* provider operation raised; otherwise it ends by returning a boolean
C9_OnlyProviderFaultsRaise ==
    (Exited /\ cfgAtRun = "true") =>
        /\ outcome \in {"returned", "raised"}
        /\ outcome = "raised" => faultAt \in ProviderFaults
        /\ faultAt \notin ProviderFaults => (outcome = "returned" /\ retval \in BOOLEAN)

C9_Witness ==
    /\ Exited
    /\ cfgAtRun = "true"
    /\ "liveBuildGit" \notin DOMAIN job_data.d
    /\ Reported("exec")
    /\ outcome = "returned"

\* C10: a fault of the provider in acquiring the sandbox or in materializing
\* the script ends run by raising, never by returning; after a fault in
\* acquiring, no other provider call is made
C10_AcquireMaterializeFaultsPropagate ==
    (Exited /\ faultAt \in {"acquire", "materialize"}) =>
        /\ outcome = "raised"
        /\ faultAt = "acquire" => Ops(log) = <<"acquire">>
        /\ faultAt = "materialize" => ~HasOp("copy") /\ ~HasOp("cleanup") /\ Count("runLogged") = 2

C10_Witness ==
    /\ Exited
    /\ faultAt = "materialize"
    /\ outcome = "raised"
    /\ HasOp("materialize")

\* the provider operations of the log, without the scope exits
IsCall(e) == e.op \notin {"release", "cleanup"}
ProviderCalls == SelectSeq(log, IsCall)
Protocol == <<"acquire", "upgrade", "runLogged", "runLogged", "materialize", "copy", "runLogged">>

\* C11: the provider operations of a run are a prefix of acquire, upgrade,
\* install git/ca-certificates, install live-build, materialize, copy,
\* execute, each at most once, and the installs and the execution run as root
C11_FixedProtocolOrder ==
    LET c == ProviderCalls
        n == Len(c)
    IN  /\ n <= Len(Protocol)
        /\ Ops(c) = SubSeq(Protocol, 1, n)
        /\ n >= 3 => (c[3].arg = AptInstallGit /\ c[3].user = "root")
        /\ n >= 4 => (c[4].arg = AptInstallLiveBuild /\ c[4].user = "root")
        /\ n >= 7 => (c[7].arg = ShExec(shfname) /\ c[7].user = "root")

C11_Witness ==
    /\ Exited
    /\ Len(ProviderCalls) = 7
    /\ Reported("exec")

\* what the shell sees for each liveBuildGit and flavor of the inputs
ExpectedUrlText(m) ==
    IF "liveBuildGit" \notin DOMAIN m THEN "''"
    ELSE IF m["liveBuildGit"] = GitPlain THEN "git://h/lb"
    ELSE "'/l b'"
ExpectedFlavorText(f) ==
    IF f = FlavorMinimal THEN "export FLAVOR=\"minimal\""
    ELSE "export FLAVOR=\"'a'\"'\"'b'\""
HasFlavor(m) == "flavor" \in DOMAIN m /\ m["flavor"] # <<>>
\* the script handed to make_commandfile in the most recent run
Script == Tail(log[5].arg)
Materializing == Len(log) >= 5 /\ log[5].op = "materialize"

\* C12: the script handed to materialization is the front-end export, cd to
\* workDir, the depth-2 clone into workDir/lb, cd ./lb, the optional flavor
\* export, lb config, lb build, the b2sum and sha256sum manifests, then the
\* seven moves into resultsDir; the list is the one kept for the rest of the run
C12_ScriptContents ==
    Materializing =>
        LET m == job_data.d
            k == IF HasFlavor(m) THEN 1 ELSE 0
        IN  /\ Len(Script) = 15 + k
            /\ Script[1] = "export DEBIAN_FRONTEND=noninteractive"
            /\ Script[2] = "cd " \o wsdir
            /\ Script[3] = "git clone --depth=2 " \o ExpectedUrlText(m) \o " " \o wsdir \o "/lb"
            /\ Script[4] = "cd ./lb"
            /\ HasFlavor(m) => Script[5] = ExpectedFlavorText(m["flavor"])
            /\ SubSeq(Script, 5 + k, 15 + k) =
                   << "lb config",
                      "lb build",
                      "b2sum *.iso *.contents *.zsync *.packages > checksums.b2sum",
                      "sha256sum *.iso *.contents *.zsync *.packages > checksums.sha256sum",
                      "mv *.iso " \o results_dir \o "/",
                      "mv -f *.zsync " \o results_dir \o "/",
                      "mv -f *.contents " \o results_dir \o "/",
                      "mv -f *.files " \o results_dir \o "/",
                      "mv -f *.packages " \o results_dir \o "/",
                      "mv -f *.b2sum " \o results_dir \o "/",
                      "mv -f *.sha256sum " \o results_dir \o "/" >>
            /\ commands = Script

C12_Witness ==
    /\ Exited
    /\ Materializing
    /\ Reported("exec")
    /\ DictGet(job_data.d, "liveBuildGit") = GitSpace
    /\ DictGet(job_data.d, "flavor") = FlavorQuote
    /\ Len(Script) = 16

\* run has built its whole command list
ScriptBuilt == job_data.tag = "dict" /\ Len(commands) >= 15
\* every line that exports FLAVOR for some flavor value
FlavorTexts == { ExpectedFlavorText(f) : f \in Flavors \ {<<>>} } \cup {"export FLAVOR=\"''\""}
WithoutFlavor(m) == [k \in DOMAIN m \ {"flavor"} |-> m[k]]

\* C13: the script has the flavor export exactly when flavor is present and
\* non-empty, once, between 'cd ./lb' and 'lb config'; all other lines are
\* those of the same job without a flavor (so absent and '' give one script)
C13_FlavorLine ==
    ScriptBuilt =>
        LET m == job_data.d
            base == BuildCommands(WithoutFlavor(m), wsdir, results_dir)
            at == { i \in 1..Len(commands) : commands[i] \in FlavorTexts }
        IN  IF HasFlavor(m)
            THEN /\ at = {5}
                 /\ commands[4] = "cd ./lb"
                 /\ commands[5] = ExpectedFlavorText(m["flavor"])
                 /\ commands[6] = "lb config"
                 /\ SubSeq(commands, 1, 4) \o SubSeq(commands, 6, Len(commands)) = base
            ELSE /\ at = {}
                 /\ commands = base

C13_Witness ==
    /\ ScriptBuilt
    /\ Materializing
    /\ DictGet(job_data.d, "flavor") = FlavorMinimal
    /\ commands[5] = "export FLAVOR=\"minimal\""

\* make_commandfile yielded a script path in the most recent run
Materialized == Materializing /\ faultAt # "materialize"

\* C14: a materialized script is cleaned up exactly once by the time run is
\* over (zero or nonzero script status, fault in copy or execution), and not
\* before; without materialization there is no cleanup
C14_ScriptCleanupOnce ==
    Count("cleanup") = (IF Materialized /\ pc = "idle" THEN 1 ELSE 0)

C14_Witness ==
    /\ Exited
    /\ Materialized
    /\ Reported("exec")
    /\ rets["exec"] # 0
    /\ Count("cleanup") = 1

\* C15: a run hands to materialization the same command list as an earlier
\* run of the same configuration that was given the same workDir and
\* resultsDir, whatever statuses either run saw
C15_SameScriptAgain ==
    (Materializing /\ prevScript # NoScript
        /\ prevScript.w = wsdir /\ prevScript.r = results_dir) =>
        Script = prevScript.cmds

C15_Witness ==
    /\ runs = 2
    /\ Materializing
    /\ prevScript # NoScript
    /\ prevScript.w = wsdir
    /\ prevScript.r = results_dir
    /\ rets["upgrade"] = 1

\* C16: upgrade, installs, copy and execution are logged after the acquire
\* and before any release; copy and execution after the materialize and before
\* any cleanup; a cleanup is followed by the release
C16_CallsInsideScopes ==
    /\ \A i \in 1..Len(log) :
        /\ log[i].op \in {"upgrade", "runLogged", "copy"} =>
               /\ i > 1
               /\ log[1].op = "acquire"
               /\ faultAt # "acquire"
               /\ \A j \in 1..(i - 1) : log[j].op # "release"
        /\ (log[i].op = "copy" \/ (log[i].op = "runLogged" /\ log[i].arg[1] = "sh")) =>
               /\ \E j \in 1..(i - 1) : log[j].op = "materialize"
               /\ \A j \in 1..(i - 1) : log[j].op # "cleanup"
        /\ log[i].op = "cleanup" =>
               /\ \E j \in (i + 1)..Len(log) : log[j].op = "release"
               /\ \A j \in 1..(i - 1) : log[j].op # "release"
    /\ (Exited /\ Materialized) => (HasOp("cleanup") /\ HasOp("release"))

C16_Witness ==
    /\ Exited
    /\ faultAt = "exec"
    /\ HasOp("cleanup")
    /\ log[Len(log)].op = "release"

\* the instance was configured with a job that has no liveBuildGit
NoUrlConfigured ==
    /\ cfgAtRun = "true"
    /\ job_data.tag = "dict"
    /\ "liveBuildGit" \notin DOMAIN job_data.d

\* C17 as stated: with no liveBuildGit, once both installs returned zero (and
\* no provider operation raises) run raises while building the script, nothing is materialized and the sandbox
\* is released once
C17_MissingUrlRaises ==
    (Exited /\ NoUrlConfigured /\ Reported("install_lb") /\ rets["install_lb"] = 0
        /\ faultAt \notin ProviderFaults) =>
        /\ outcome = "raised"
        /\ faultAt = "build"
        /\ ~HasOp("materialize")
        /\ Count("release") = 1

\* C17 amended: a job with suite and architecture but no liveBuildGit is
\* accepted; once both installs returned zero the script is built without a
\* fault, its clone line names the empty string '', it is materialized, and
\* unless a provider operation raises it is copied and executed and run returns
\* True exactly when the script reports zero; the sandbox is released once
C17_MissingUrlClonesEmpty ==
    /\ (cfgCount > 0 /\ ValidJob(cfgJob) /\ "liveBuildGit" \notin DOMAIN cfgJob.data.d) =>
           cfgRet = "true"
    /\ (runs > 0 /\ NoUrlConfigured /\ Reported("install_lb") /\ rets["install_lb"] = 0
            /\ pc # "build") =>
           /\ faultAt # "build"
           /\ commands[3] = "git clone --depth=2 '' " \o wsdir \o "/lb"
           /\ pc # "materialize" => (Materializing /\ Script = commands)
           /\ Exited =>
                  /\ Count("release") = 1
                  /\ outcome = "raised" => faultAt \in {"materialize", "copy", "exec"}
                  /\ outcome = "returned" =>
                         (Count("copy") = 1 /\ Reported("exec") /\ (retval <=> rets["exec"] = 0))

C17_Witness ==
    /\ Exited
    /\ NoUrlConfigured
    /\ Reported("exec")
    /\ rets["exec"] = 0
    /\ outcome = "returned"
    /\ retval = TRUE
    /\ Script[3] = "git clone --depth=2 '' /srv/ws/lb"

\* C18: a run on an instance no set_job call ever accepted raises before the
\* sandbox is acquired: no provider call, no release
C18_UnconfiguredRunRaisesEarly ==
    (runs > 0 /\ ~cfgEverOk) =>
        /\ pc = "idle"
        /\ log = <<>>
        /\ outcome = "raised"
        /\ faultAt = "attribute"

C18_Witness ==
    /\ runs > 0
    /\ ~cfgEverOk
    /\ cfgCount = 2
    /\ outcome = "raised"

\* C19: whenever chrootName is set, it is suite-architecture of the job of the
\* most recent set_job call, whose data and workspace are the stored ones
C19_ChrootMatchesStoredJob ==
    chroot_name # Unset =>
        /\ job_data = cfgJob.data
        /\ workspace = cfgWs
        /\ ValidJob(cfgJob)
        /\ chroot_name = Str(cfgJob.data.d["suite"] \o <<"-">> \o cfgJob.architecture)
====
